---- MODULE Spec2Model ----
(***************************************************************************)
(* Model of the solar-twin backend: the telemetry generator, the weather   *)
(* source, the digital twin, the alert classifier, the cleaning actuator,  *)
(* the ThingSpeak sink client and the orchestrator with its WebSocket      *)
(* subscriber registry (backend/src/index.ts and backend/src/services).    *)
(*                                                                         *)
(* Node runs the program on one event loop.  Every action below is one     *)
(* run-to-completion piece of a callback: a macrotask (timer, socket or    *)
(* HTTP completion event) or the continuation of an async function after   *)
(* an await (a microtask).  Microtasks run before the next macrotask.      *)
(***************************************************************************)
EXTENDS Integers, Sequences, FiniteSets, TLC

VARIABLES
    now,            \* Date.now(), ms
    nTicks,         \* steps of the clock so far: in the orchestrator, timer callbacks
    crashed,        \* the process died of an uncaught exception
    listeners,      \* telemetry.ts `listeners`: a Set, kept in insertion order
    registrations,  \* history: how many times onReading(cb) was called, per cb
    invoked,        \* history: how many times each cb was called by the last emit
    lastEmit,       \* history: the last reading emitted
    pending,        \* microtask queue: handler continuations after the await
    subscribers,    \* index.ts `subscribers`: a Set, kept in insertion order
    clientState,    \* each WebSocket client: "idle", "open", "broken", "closed"
    lastBroadcast,  \* history: what the last run of the handler did
    cleanings,      \* triggerCleaning() calls waiting on their 3 s timer
    hasSink,        \* index.ts `thingSpeak` is not null
    minIntervalMs,  \* ThingSpeakClient.minIntervalMs
    lastPostMs,     \* ThingSpeakClient.lastPostMs
    inflight,       \* axios.post requests sent and not yet settled
    nCalls,         \* history: postUpdate calls so far
    nAttempts,      \* history: axios.post calls so far
    lastCall,       \* history: the last postUpdate call (and the one before it)
    lastDone,       \* history: the last axios.post that settled
    lastSuccess,    \* history: the last axios.post that resolved
    alertIn,        \* classifier harness: the input of evaluate
    alertOut,       \* classifier harness: the value evaluate returned
    alertPrev,      \* classifier harness: the ratio and the result of the call before
    lastCleaned,    \* history: the last triggerCleaning() call that returned
    nCleanRequests, \* history: POST /api/clean requests so far
    watched,        \* the clients whose received messages are recorded
    inbox,          \* history: the timestamps each watched client has received
    fetchIn,        \* weather fetch: the request and what the provider does
    fetchOut,       \* weather fetch: what the function and the endpoint answer
    calcIn,         \* function harness: the function called and its arguments
    calcOut         \* function harness: the value it returned

timeVars == <<now, nTicks, crashed>>
genVars == <<listeners, registrations, invoked, lastEmit>>
orchVars == <<pending, subscribers, clientState, lastBroadcast, cleanings, hasSink>>
sinkVars == <<minIntervalMs, lastPostMs, inflight, nCalls, nAttempts, lastCall,
              lastDone, lastSuccess>>
alertVars == <<alertIn, alertOut, alertPrev>>
cleanVars == <<lastCleaned, nCleanRequests>>
inboxVars == <<watched, inbox>>
fetchVars == <<fetchIn, fetchOut>>
calcVars == <<calcIn, calcOut>>
auxVars == <<cleanVars, inboxVars, fetchVars, calcVars>>
vars == <<timeVars, genVars, orchVars, sinkVars, alertVars, auxVars>>

(***************************************************************************)
(* Numbers.  A JS number is an exact rational n/d with d > 0, or NaN, or   *)
(* an infinity.  Comparisons are those of JS: any comparison with NaN is   *)
(* false.                                                                  *)
(***************************************************************************)
Num(n, d) == [kind |-> "num", n |-> n, d |-> d]
NaN == [kind |-> "nan", n |-> 0, d |-> 1]
PosInf == [kind |-> "inf", n |-> 1, d |-> 1]
NegInf == [kind |-> "inf", n |-> -1, d |-> 1]
Zero == Num(0, 1)

isFinite(x) == x.kind = "num"

Rank(x) == IF x.kind = "inf" THEN x.n ELSE 0

RECURSIVE GCD(_, _)
GCD(a, b) == IF b = 0 THEN a ELSE GCD(b, a % b)

Abs(i) == IF i < 0 THEN -i ELSE i
Max(i, j) == IF i >= j THEN i ELSE j

\* the numerators of x and y over their least common denominator
Over(x, y) == LET g == GCD(x.d, y.d)
              IN [x |-> x.n * (y.d \div g), y |-> y.n * (x.d \div g),
                  d |-> x.d * (y.d \div g)]

\* JS x < y
Lt(x, y) ==
    IF x.kind = "nan" \/ y.kind = "nan" THEN FALSE
    ELSE IF x.kind = "inf" \/ y.kind = "inf" THEN Rank(x) < Rank(y)
    ELSE Over(x, y).x < Over(x, y).y

\* JS x <= y
Le(x, y) ==
    IF x.kind = "nan" \/ y.kind = "nan" THEN FALSE
    ELSE IF x.kind = "inf" \/ y.kind = "inf"
         THEN Rank(x) < Rank(y) \/ (x.kind = "inf" /\ x = y)
    ELSE Over(x, y).x <= Over(x, y).y

\* JS x === y on numbers
NumEq(x, y) == Le(x, y) /\ Le(y, x)

\* n/d in lowest terms, d > 0: equal numbers are equal records
Norm(n, d) == LET g == GCD(Abs(n), d) IN Num(n \div g, d \div g)

\* JS arithmetic on finite numbers, exact
Mul(x, y) ==
    LET a == Norm(x.n, y.d)
        b == Norm(y.n, x.d)
    IN Norm(a.n * b.n, a.d * b.d)
Add(x, y) == Norm(Over(x, y).x + Over(x, y).y, Over(x, y).d)
Sub(x, y) == Norm(Over(x, y).x - Over(x, y).y, Over(x, y).d)
Div(x, y) == IF y.n > 0 THEN Mul(x, Num(y.d, y.n)) ELSE Mul(x, Num(-y.d, -y.n))
MathAbs(x) == Num(Abs(x.n), x.d)
MathMax(x, y) == IF Lt(x, y) THEN y ELSE x
MathMin(x, y) == IF Lt(y, x) THEN y ELSE x

RECURSIVE Pow10(_)
Pow10(k) == IF k = 0 THEN 1 ELSE 10 * Pow10(k - 1)

\* Number(x.toFixed(digits)): x rounded to `digits` decimals, half away from zero
toFixed(x, digits) ==
    LET s == Pow10(digits)
        q == (2 * Abs(x.n) * s + x.d) \div (2 * x.d)
    IN Norm(IF x.n < 0 THEN -q ELSE q, s)

(***************************************************************************)
(* AlertService (services/alerts.ts).  null is the record NULL.            *)
(***************************************************************************)
NULL == [level |-> "null", message |-> "", ratio |-> NaN, shouldClean |-> FALSE]

\* the literal 1.5 of the upper band
UpperBandFactor == Num(3, 2)

Alert(level, ratio) ==
    [level |-> level,
     message |-> CASE level = "ok" -> "Within expected range"
                   [] level = "warning" -> "Performance below expectation"
                   [] OTHER -> "Significant performance drop detected",
     ratio |-> ratio,
     shouldClean |-> (level = "critical")]

\* a classifier whose bands are in the opposite order
classifyDescending(thresholdRatio, ratio) ==
    IF Lt(ratio, thresholdRatio) THEN Alert("critical", ratio)
    ELSE IF Lt(ratio, Mul(thresholdRatio, UpperBandFactor)) THEN Alert("warning", ratio)
    ELSE Alert("ok", ratio)

\* a classifier whose lower band is closed above (<= for <)
classifyClosedLower(thresholdRatio, ratio) ==
    IF Le(ratio, thresholdRatio) THEN Alert("ok", ratio)
    ELSE IF Lt(ratio, Mul(thresholdRatio, UpperBandFactor)) THEN Alert("warning", ratio)
    ELSE Alert("critical", ratio)

\* alerts.ts lines 14-16
classify(thresholdRatio, ratio) ==
    IF Lt(ratio, thresholdRatio) THEN Alert("ok", ratio)
    ELSE IF Lt(ratio, Mul(thresholdRatio, UpperBandFactor)) THEN Alert("warning", ratio)
    ELSE Alert("critical", ratio)

\* evaluate without its guard on predictedKw
evaluateNoGuard(thresholdRatio, input) == classify(thresholdRatio, input.ratio)

evaluate(thresholdRatio, input) ==
    IF ~isFinite(input.predictedKw) \/ Le(input.predictedKw, Zero) THEN NULL
    ELSE classify(thresholdRatio, input.ratio)

\* a handler that cleans on every alert it gets, whatever its level
ShouldCleanAnyAlert(alert) == alert.level # "null"

\* alert?.shouldClean
ShouldClean(alert) == alert.level # "null" /\ alert.shouldClean

(***************************************************************************)
(* The panel, the generator's reading, the weather snapshot and the twin.  *)
(* The sines and Math.random() are read from the clock and the generator:  *)
(* the model draws their values (the phases) from sampled sets and         *)
(* computes everything else as the code does.                              *)
(***************************************************************************)
\* telemetry.ts: the panel created by createTelemetrySimulator
DemoPanel == [panelId |-> "DEMO-001", ratedKw |-> Num(5, 1),
              efficiency |-> Num(18, 100), areaM2 |-> Num(55, 2)]

\* a generator whose noise is ten times as large
MakeReadingLoud(t, panel, sunAngle, dirtSin, rnd) ==
    LET dirtLoss == Add(Num(5, 100), Mul(Num(15, 100), MathMax(Zero, dirtSin)))
        noise == Mul(Sub(rnd, Num(1, 2)), Num(5, 10))
        idealKw == Mul(panel.ratedKw, sunAngle)
        actualKw == MathMax(Zero, Mul(idealKw, Add(Sub(Num(1, 1), dirtLoss), noise)))
    IN [timestamp |-> t, energyKw |-> actualKw, panel |-> panel]

\* telemetry.ts, the timer callback: sunAngle is max(0, sin(..)) of the simulated
\* hour, dirtSin is sin(seconds / 120), rnd is Math.random()
MakeReading(t, panel, sunAngle, dirtSin, rnd) ==
    LET dirtLoss == Add(Num(5, 100), Mul(Num(15, 100), MathMax(Zero, dirtSin)))
        noise == Mul(Sub(rnd, Num(1, 2)), Num(5, 100))
        idealKw == Mul(panel.ratedKw, sunAngle)
        actualKw == MathMax(Zero, Mul(idealKw, Add(Sub(Num(1, 1), dirtLoss), noise)))
    IN [timestamp |-> t, energyKw |-> actualKw, panel |-> panel]

\* weather.ts WeatherProvider.getCurrentWeather: diurnal is max(0, sin(..)) of the
\* hour, s300, s200 and s180 are sin(seconds / 300), sin(seconds / 200) and
\* sin(seconds / 180)
getCurrentWeather(diurnal, s300, s200, s180) ==
    LET cloudCover == MathMin(Num(1, 1),
                        MathMax(Zero, Add(Num(3, 10), Mul(Num(3, 10), s200))))
    IN [temperatureC |-> Add(Add(Num(20, 1), Mul(Num(12, 1), diurnal)),
                             Mul(Num(2, 1), s300)),
        humidity |-> Add(Num(50, 1), Mul(Num(20, 1), s180)),
        cloudCover |-> cloudCover,
        sunlightRatio |-> Mul(diurnal, Sub(Num(1, 1), Mul(Num(6, 10), cloudCover)))]

\* a twin whose output grows with the temperature above 25 C
predictWarmBonus(panel, weather) ==
    LET deltaT == MathMax(Zero, Sub(weather.temperatureC, Num(25, 1)))
        tempDerate == Add(Num(1, 1), Mul(Num(45, 10000), deltaT))
        cloudFactor == Sub(Num(1, 1), Mul(Num(75, 100), weather.cloudCover))
        humidityDrag == Sub(Num(1, 1), Mul(Num(5, 100), Div(weather.humidity, Num(100, 1))))
        factor == MathMax(Zero, Mul(Mul(Mul(weather.sunlightRatio, tempDerate), cloudFactor),
                                    humidityDrag))
    IN [energyKw |-> Mul(panel.ratedKw, factor)]

\* digitalTwin.ts createDigitalTwin().predict
predict(panel, weather) ==
    LET irradianceFactor == weather.sunlightRatio
        tempCoefficientPerC == Num(-45, 10000)
        ambient == weather.temperatureC
        deltaT == MathMax(Zero, Sub(ambient, Num(25, 1)))
        tempDerate == Add(Num(1, 1), Mul(tempCoefficientPerC, deltaT))
        cloudFactor == Sub(Num(1, 1), Mul(Num(75, 100), weather.cloudCover))
        humidityDrag == Sub(Num(1, 1), Mul(Num(5, 100), Div(weather.humidity, Num(100, 1))))
        factor == MathMax(Zero, Mul(Mul(Mul(irradianceFactor, tempDerate), cloudFactor),
                                    humidityDrag))
    IN [energyKw |-> Mul(panel.ratedKw, factor)]

\* the ratio without the floor of 0.001 under the divisor: x / 0 is Infinity, 0 / 0 NaN
RatioNoFloor(predictedKw, actualKw) ==
    IF predictedKw.n = 0
    THEN (IF actualKw.n = 0 THEN NaN ELSE PosInf)
    ELSE Div(MathAbs(Sub(predictedKw, actualKw)), predictedKw)

\* index.ts handler: Math.abs(diff) / Math.max(predicted.energyKw, 0.001)
Ratio(predictedKw, actualKw) ==
    Div(MathAbs(Sub(predictedKw, actualKw)), MathMax(predictedKw, Num(1, 1000)))

(***************************************************************************)
(* Program constants and the bounds of the model.                          *)
(***************************************************************************)
intervalMs == 1000
PostTimeoutMs == 8000
DefaultMinIntervalMs == 16000
durationSec == 3
tenMinutesMs == 600000

MaxTicks == 4           \* timer callbacks of a run of the orchestrator
MaxLiveTicks == 4       \* timer callbacks of a run checked for liveness
MaxSteps == 5           \* clock steps of a run of the sink client alone
MaxCalls == 3           \* postUpdate calls of a run of the sink client alone
MaxGenTicks == 3        \* timer callbacks of a run of the generator alone
MaxRegistrations == 4   \* onReading calls of a run of the generator alone
MaxInboxTicks == 4      \* timer callbacks of a run with a watched client
MaxCleanTicks == 5      \* timer callbacks of a run of the cleaning actuator
MaxCleanRequests == 2   \* POST /api/clean requests of a run
MaxHourly == 4          \* entries of an hourly forecast list

\* Date.now() when the process starts: far more than any minimum interval after
\* the epoch.  The clock of the model advances in steps of the timer interval.
StartMs == 2 * DefaultMinIntervalMs

(***************************************************************************)
(* ThingSpeakClient (services/thingspeak.ts).                              *)
(***************************************************************************)
\* no request body
NoFields == [field1 |-> NaN, field2 |-> NaN, field3 |-> NaN]

NoCall == [at |-> 0, fields |-> NoFields, attempted |-> FALSE, body |-> NoFields,
           seen |-> 0, unchanged |-> TRUE, outcome |-> "none",
           prevAt |-> 0, prevAttempted |-> FALSE, prevOutcome |-> "none"]

NoDone == [valid |-> FALSE, ok |-> FALSE, unchanged |-> TRUE, promise |-> "none"]

NoSuccess == [valid |-> FALSE, start |-> 0]

\* a throttle that opens only after the interval (> for >=)
canPostNowStrict == now - lastPostMs > minIntervalMs

\* no throttle at all
canPostNowAlways == TRUE

\* canPostNow()
canPostNow == now - lastPostMs >= minIntervalMs

\* lastPostMs once postUpdate has sent the request and is awaiting the response:
\* the code assigns it only after the await
stampOnSend == lastPostMs

\* the timestamp recorded whether the post resolved or not
stampAlways(p, ok) == p.start

\* lastPostMs once the axios.post of request p has settled: `now` is the constant
\* postUpdate took before the await
stampOnSettle(p, ok) == IF ok THEN p.start ELSE lastPostMs

\* how the promise of postUpdate settles: the catch block swallows the error
settle(ok) == "resolved"

\* the body of the request: { api_key, ...fields }
requestBody(fields) == fields

\* postUpdate(fields), up to its await: a part of the action of its caller
postUpdate(fields) ==
    LET id == nCalls + 1
        attempt == canPostNow
        post == [call |-> id, start |-> now]
    IN /\ nCalls' = id
       /\ nAttempts' = IF attempt THEN nAttempts + 1 ELSE nAttempts
       /\ inflight' = IF attempt THEN inflight \cup {post} ELSE inflight
       /\ lastPostMs' = IF attempt THEN stampOnSend ELSE lastPostMs
       /\ lastCall' = [at |-> now, fields |-> fields, attempted |-> attempt,
                       body |-> IF attempt THEN requestBody(fields) ELSE NoFields,
                       seen |-> lastPostMs,
                       unchanged |-> (inflight' = inflight /\ lastPostMs' = lastPostMs),
                       outcome |-> IF attempt THEN "inflight" ELSE "skipped",
                       prevAt |-> lastCall.at, prevAttempted |-> lastCall.attempted,
                       prevOutcome |-> lastCall.outcome]
       /\ UNCHANGED <<minIntervalMs, lastDone, lastSuccess>>

\* the axios.post of request p settles (ok: a 2xx response; not ok: a non-2xx
\* response, a network error or the 8 s timeout) and postUpdate runs to its end
PostSettles(p, ok) ==
    /\ ~crashed
    /\ pending = <<>>
    /\ p \in inflight
    /\ inflight' = inflight \ {p}
    /\ lastPostMs' = stampOnSettle(p, ok)
    /\ lastDone' = [valid |-> TRUE, ok |-> ok, unchanged |-> (lastPostMs' = lastPostMs),
                    promise |-> settle(ok)]
    /\ lastSuccess' = IF ok THEN [valid |-> TRUE, start |-> p.start] ELSE lastSuccess
    /\ lastCall' = IF nCalls = p.call
                   THEN [lastCall EXCEPT !.outcome = IF ok THEN "ok" ELSE "failed"]
                   ELSE lastCall
    /\ UNCHANGED <<minIntervalMs, nCalls, nAttempts>>

PostSucceeds ==
    /\ \E p \in inflight : PostSettles(p, TRUE)
    /\ UNCHANGED <<timeVars, genVars, orchVars, alertVars, auxVars>>

PostFails ==
    /\ \E p \in inflight : PostSettles(p, FALSE)
    /\ UNCHANGED <<timeVars, genVars, orchVars, alertVars, auxVars>>

\* a server that takes the next timer callback only when nothing is under way
MayElapseWhenIdle(step) ==
    /\ inflight = {}
    /\ cleanings = {}

\* the clock may advance by a step: no request is past its timeout and no
\* cleaning timer is past due at the new time
MayElapse(step) ==
    /\ \A p \in inflight : (now + step) - p.start <= PostTimeoutMs
    /\ \A c \in cleanings : (now + step) - c.startedAt <= durationSec * 1000

(***************************************************************************)
(* The telemetry generator (services/telemetry.ts).                        *)
(***************************************************************************)
\* the callbacks a listener can be: the handler index.ts registers, two
\* well-behaved listeners and one that throws
TestCallbacks == {"cbA", "cbB", "cbThrow"}
Callbacks == {"orch"} \cup TestCallbacks
Throws(cb) == cb = "cbThrow"

Range(seq) == {seq[i] : i \in 1..Len(seq)}
Count(seq, x) == Cardinality({i \in 1..Len(seq) : seq[i] = x})

\* a registry that is a list: every registration adds an entry
addListenerList(ls, cb) == Append(ls, cb)

\* listeners.add(cb): `listeners` is a Set, it holds a callback once
addListener(ls, cb) == IF cb \in Range(ls) THEN ls ELSE Append(ls, cb)

\* emit(reading): for (const l of listeners) l(reading).  A throw leaves the loop:
\* the listeners called are those up to the first that throws.
emit(ls) ==
    LET bad == {i \in 1..Len(ls) : Throws(ls[i])}
        last == IF bad = {} THEN Len(ls) ELSE CHOOSE i \in bad : \A j \in bad : i <= j
    IN [called |-> SubSeq(ls, 1, last), threw |-> bad # {}]

\* the sampled phases of the generator's clock and Math.random(), as
\* <<sunAngle, dirtSin, rnd>>, and of the weather's clock, as
\* <<diurnal, s300, s200, s180>>: both clocks are read from Date.now()
DarkPanel == <<Zero, Num(-1, 1), Zero>>
SoiledPanel == <<Num(1, 2), Num(1, 1), Zero>>
CleanPanel == <<Num(1, 2), Num(-1, 1), Zero>>
NightSky == <<Zero, Zero, Num(-1, 1), Zero>>
DaySky == <<Num(1, 2), Zero, Num(-1, 1), Zero>>

PhasePairs ==
    { <<CleanPanel, NightSky>>, <<DarkPanel, DaySky>>, <<SoiledPanel, DaySky>>,
      <<CleanPanel, DaySky>> }

\* what the generator and the weather provider produce at the sampled phases
Moments ==
    {[energyKw |-> MakeReading(0, DemoPanel, pp[1][1], pp[1][2], pp[1][3]).energyKw,
      weather |-> getCurrentWeather(pp[2][1], pp[2][2], pp[2][3], pp[2][4])] :
        pp \in PhasePairs}

NoEmit == [valid |-> FALSE, timestamp |-> 0, energyKw |-> Zero, called |-> <<>>,
           threw |-> FALSE, registrations |-> [cb \in Callbacks |-> 0],
           panel |-> DemoPanel]

\* a panel whose rating wears off from one reading to the next
emittedPanelWorn(k) == [DemoPanel EXCEPT !.ratedKw = Num(5 * (10 - k), 10)]

\* the panel of the k-th reading: the one object createTelemetrySimulator made
emittedPanel(k) == DemoPanel

\* onReading(cb)
OnReading(cb) ==
    /\ ~crashed
    /\ pending = <<>>
    /\ listeners' = addListener(listeners, cb)
    /\ registrations' = [registrations EXCEPT ![cb] = @ + 1]
    /\ UNCHANGED <<timeVars, invoked, lastEmit, orchVars, sinkVars, alertVars, auxVars>>

\* the setInterval callback: the clock has advanced by intervalMs, a reading is
\* made and emitted.  The index.ts handler runs to its await (getCurrentWeather()
\* has computed the snapshot) and its continuation is queued as a microtask.  A
\* listener that throws ends the callback with an uncaught exception, which ends
\* the process.
TimerFires(maxTicks, moments) ==
    /\ ~crashed
    /\ pending = <<>>
    /\ nTicks < maxTicks
    /\ MayElapse(intervalMs)
    /\ now' = now + intervalMs
    /\ nTicks' = nTicks + 1
    /\ \E m \in moments :
         LET reading == [timestamp |-> now', energyKw |-> m.energyKw,
                         panel |-> emittedPanel(nTicks')]
             e == emit(listeners)
         IN /\ invoked' = [cb \in Callbacks |-> Count(e.called, cb)]
            /\ lastEmit' = [valid |-> TRUE, timestamp |-> reading.timestamp,
                            energyKw |-> reading.energyKw, called |-> e.called,
                            threw |-> e.threw, registrations |-> registrations,
                            panel |-> reading.panel]
            /\ crashed' = e.threw
            /\ pending' = IF "orch" \in Range(e.called)
                          THEN <<[reading |-> reading, weather |-> m.weather]>>
                          ELSE <<>>
    /\ UNCHANGED <<listeners, registrations, subscribers, clientState, lastBroadcast,
                   cleanings, hasSink, sinkVars, alertVars, auxVars>>

(***************************************************************************)
(* The cleaning actuator (services/cleaning.ts).                           *)
(***************************************************************************)
\* a cleaning that has run to its end before its caller goes on
triggerCleaningSync(cs, tick) == cs

\* triggerCleaning(), up to its await: the start is recorded and the timer set.
\* `tick` names the caller: the timestamp of the tick whose handler called, or the
\* number of the POST /api/clean request
triggerCleaning(cs, tick) == cs \cup {[startedAt |-> now, tick |-> tick]}

\* a service that keeps the start of its latest invocation in one shared field
cleaningResultShared(c) ==
    [startedAt |-> (CHOOSE o \in cleanings : \A x \in cleanings :
                        o.startedAt >= x.startedAt).startedAt,
     status |-> "completed", durationSec |-> durationSec]

\* the CleaningResult invocation c returns
cleaningResult(c) ==
    [startedAt |-> c.startedAt, status |-> "completed", durationSec |-> durationSec]

NoCleaned == [valid |-> FALSE, call |-> [startedAt |-> 0, tick |-> 0],
              result |-> [startedAt |-> 0, status |-> "none", durationSec |-> 0]]

\* the timer of a cleaning fires durationSec seconds after its start and
\* triggerCleaning() returns its result
CleaningDone ==
    /\ ~crashed
    /\ pending = <<>>
    /\ \E c \in cleanings :
         /\ now - c.startedAt >= durationSec * 1000
         /\ cleanings' = cleanings \ {c}
         /\ lastCleaned' = [valid |-> TRUE, call |-> c, result |-> cleaningResult(c)]
    /\ UNCHANGED <<timeVars, genVars, pending, subscribers, clientState, lastBroadcast,
                   hasSink, sinkVars, alertVars, nCleanRequests, inboxVars, fetchVars,
                   calcVars>>

\* POST /api/clean: the request handler calls triggerCleaning() and awaits it
CleanRequest ==
    /\ ~crashed
    /\ pending = <<>>
    /\ nCleanRequests < MaxCleanRequests
    /\ nCleanRequests' = nCleanRequests + 1
    /\ cleanings' = triggerCleaning(cleanings, nCleanRequests')
    /\ UNCHANGED <<timeVars, genVars, pending, subscribers, clientState, lastBroadcast,
                   hasSink, sinkVars, alertVars, lastCleaned, inboxVars, fetchVars,
                   calcVars>>

(***************************************************************************)
(* The orchestrator and the subscriber registry (index.ts).                *)
(***************************************************************************)
\* the WebSocket clients of a run
Clients == {1, 2, 3}

\* a client that has not connected and has received nothing
NoInbox == [since |-> 0, got |-> <<>>]

\* a field the provider's JSON does not carry (undefined)
Missing == [kind |-> "missing", n |-> 0, d |-> 1]

\* v ?? dflt
Nullish(v, dflt) == IF v.kind = "missing" THEN dflt ELSE v

\* no snapshot: the promise rejected, or nothing was fetched
NoSnapshot == [temperatureC |-> NaN, humidity |-> NaN, cloudCover |-> NaN,
               sunlightRatio |-> NaN]

\* what Open-Meteo does with one request: the transport delivers a response or
\* fails, the response has a status and a body that parses as JSON or not, the
\* body carries the fields or not, and hourly.time holds current.time or not
Providers ==
    [transport : {"response", "fails"}, status : {200, 404, 500},
     json : {"object", "invalid"},
     temperature_2m : {Missing, Num(31, 1)},
     relative_humidity_2m : {Missing, Num(60, 1)},
     cloud_cover : {Missing, Num(20, 1), Num(100, 1)},
     timeFound : BOOLEAN,
     shortwave_radiation : {Missing, Num(400, 1), Num(1200, 1)}]

\* weather.ts fetchWeatherFromOpenMeteo: how its promise settles
fetchWeatherFromOpenMeteo(env) ==
    IF env.transport = "fails" THEN [promise |-> "rejected", snapshot |-> NoSnapshot]
    ELSE IF ~(env.status \in 200..299)
         THEN [promise |-> "rejected", snapshot |-> NoSnapshot]
    ELSE IF env.json = "invalid" THEN [promise |-> "rejected", snapshot |-> NoSnapshot]
    ELSE LET temperatureC == Nullish(env.temperature_2m, Num(20, 1))
             humidity == Nullish(env.relative_humidity_2m, Num(50, 1))
             cloudCover == MathMin(Num(1, 1), MathMax(Zero,
                              Div(Nullish(env.cloud_cover, Num(50, 1)), Num(100, 1))))
             sw == Nullish(env.shortwave_radiation, Zero)
             clearSkyTypical == Num(800, 1)
             sunlightRatio == IF env.timeFound
                              THEN MathMax(Zero, MathMin(Num(1, 1), Div(sw, clearSkyTypical)))
                              ELSE Zero
         IN [promise |-> "resolved",
             snapshot |-> [temperatureC |-> temperatureC, humidity |-> humidity,
                           cloudCover |-> cloudCover, sunlightRatio |-> sunlightRatio]]

\* the latitudes and longitudes of a query: a number, or NaN when the parameter
\* is absent or not a number
Coordinates == {Num(13, 1), Num(-80, 1), NaN}

\* no weather fetch asked, none answered
NoFetch == [asked |-> FALSE, lat |-> NaN, lon |-> NaN,
            env |-> CHOOSE e \in Providers : TRUE]
NoAnswer == [answered |-> FALSE, fetched |-> FALSE, promise |-> "none", status |-> 0,
             body |-> "none", snapshot |-> NoSnapshot]

\* index.ts GET /api/weather/current: what the route answers
weatherCurrent(lat, lon, env) ==
    IF ~isFinite(lat) \/ ~isFinite(lon)
    THEN [answered |-> TRUE, fetched |-> FALSE, promise |-> "none", status |-> 400,
          body |-> "lat and lon are required", snapshot |-> NoSnapshot]
    ELSE LET f == fetchWeatherFromOpenMeteo(env)
         IN IF f.promise = "resolved"
            THEN [answered |-> TRUE, fetched |-> TRUE, promise |-> f.promise,
                  status |-> 200, body |-> "snapshot", snapshot |-> f.snapshot]
            ELSE [answered |-> TRUE, fetched |-> TRUE, promise |-> f.promise,
                  status |-> 500, body |-> "Failed to fetch weather",
                  snapshot |-> NoSnapshot]

\* the clients that connect in a run: with a sink configured the model follows one
Connecting == IF hasSink THEN {1} ELSE Clients

\* ALERT_THRESHOLD, by default 0.2
THRESHOLD == Num(1, 5)

\* the sockets whose send() throws
Broken == {c \in Clients : clientState[c] = "broken"}

\* JSON.stringify of a number: a non-finite number is written null
JsonNumber(x) == IF isFinite(x) THEN x ELSE [kind |-> "null", n |-> 0, d |-> 1]

\* JSON.stringify(payload) of the telemetry message
JsonStringify(payload) ==
    [type |-> payload.type,
     data |-> [timestamp |-> payload.data.timestamp,
               actualKw |-> JsonNumber(payload.data.actualKw),
               predictedKw |-> JsonNumber(payload.data.predictedKw),
               weather |-> [f \in DOMAIN payload.data.weather |->
                               JsonNumber(payload.data.weather[f])],
               ratio |-> JsonNumber(payload.data.ratio),
               alert |-> IF payload.data.alert = NULL THEN NULL
                         ELSE [payload.data.alert EXCEPT !.ratio = JsonNumber(@)]]]

\* a broadcast loop without the try/catch: the first throw leaves it
sendLoopNoCatch(subs, bad) ==
    LET thrown == {i \in 1..Len(subs) : subs[i] \in bad}
        last == IF thrown = {} THEN Len(subs)
                ELSE (CHOOSE i \in thrown : \A j \in thrown : i <= j) - 1
    IN [delivered |-> {subs[i] : i \in 1..last}, order |-> SubSeq(subs, 1, last),
        raised |-> thrown # {}]

\* a broadcast loop that reports the failures once it has gone round
sendLoopRethrow(subs, bad) ==
    [delivered |-> {subs[i] : i \in {j \in 1..Len(subs) : subs[j] \notin bad}},
     order |-> SelectSeq(subs, LAMBDA x : x \notin bad),
     raised |-> \E i \in 1..Len(subs) : subs[i] \in bad]

\* broadcast(payload): for (const ws of subscribers) { try { ws.send(str) } catch {} }
sendLoop(subs, bad) ==
    [delivered |-> {subs[i] : i \in {j \in 1..Len(subs) : subs[j] \notin bad}},
     order |-> SelectSeq(subs, LAMBDA x : x \notin bad),
     raised |-> FALSE]

NoBroadcast == [valid |-> FALSE, timestamp |-> 0, str |-> [type |-> "none"],
                threw |-> {}, delivered |-> {}, raised |-> FALSE,
                predictedKw |-> Zero, actualKw |-> Zero, ratio |-> Zero,
                alert |-> NULL, cleaningStarted |-> FALSE, posted |-> FALSE,
                panel |-> DemoPanel]

\* wss.on('connection'): clients connect in the order of their numbers
Connect(c) ==
    /\ ~crashed
    /\ pending = <<>>
    /\ c \in Connecting
    /\ clientState[c] = "idle"
    /\ \A b \in Clients : b < c => clientState[b] # "idle"
    /\ subscribers' = Append(subscribers, c)
    /\ clientState' = [clientState EXCEPT ![c] = "open"]
    /\ inbox' = IF c \in watched THEN [inbox EXCEPT ![c].since = now] ELSE inbox
    /\ UNCHANGED <<timeVars, genVars, pending, lastBroadcast, cleanings, hasSink,
                   sinkVars, alertVars, cleanVars, watched, fetchVars, calcVars>>

\* a socket that fails is taken off the registry
BreakRemoves(c) ==
    /\ ~crashed
    /\ pending = <<>>
    /\ clientState[c] = "open"
    /\ subscribers' = SelectSeq(subscribers, LAMBDA x : x # c)
    /\ clientState' = [clientState EXCEPT ![c] = "broken"]
    /\ UNCHANGED <<timeVars, genVars, pending, lastBroadcast, cleanings, hasSink,
                   sinkVars, alertVars, auxVars>>

\* the socket of a subscriber stops accepting send(): from now on send() throws
Break(c) ==
    /\ ~crashed
    /\ pending = <<>>
    /\ clientState[c] = "open"
    /\ clientState' = [clientState EXCEPT ![c] = "broken"]
    /\ UNCHANGED <<timeVars, genVars, pending, subscribers, lastBroadcast, cleanings,
                   hasSink, sinkVars, alertVars, auxVars>>

\* a close event that leaves the registry as it is
CloseKeeps(c) ==
    /\ ~crashed
    /\ pending = <<>>
    /\ clientState[c] \in {"open", "broken"}
    /\ clientState' = [clientState EXCEPT ![c] = "closed"]
    /\ UNCHANGED <<timeVars, genVars, pending, subscribers, lastBroadcast, cleanings,
                   hasSink, sinkVars, alertVars, auxVars>>

\* ws.on('close'): subscribers.delete(ws)
Close(c) ==
    /\ ~crashed
    /\ pending = <<>>
    /\ clientState[c] \in {"open", "broken"}
    /\ subscribers' = SelectSeq(subscribers, LAMBDA x : x # c)
    /\ clientState' = [clientState EXCEPT ![c] = "closed"]
    /\ UNCHANGED <<timeVars, genVars, pending, lastBroadcast, cleanings, hasSink,
                   sinkVars, alertVars, auxVars>>

\* the values the handler of telemetry.onReading computes from a reading and the
\* weather snapshot: the prediction, the ratio, the alert and the sink's fields
Compute(panel, energyKw, weather) ==
    LET predicted == predict(panel, weather)
        ratio == Ratio(predicted.energyKw, energyKw)
        alert == evaluate(THRESHOLD, [actualKw |-> energyKw,
                                      predictedKw |-> predicted.energyKw,
                                      ratio |-> ratio])
    IN [predicted |-> predicted, ratio |-> ratio, alert |-> alert,
        fields |-> [field1 |-> toFixed(energyKw, 3),
                    field2 |-> toFixed(predicted.energyKw, 3),
                    field3 |-> toFixed(Mul(ratio, Num(100, 1)), 2)]]

\* Compute at the sampled moments, evaluated once
Computed ==
    {[energyKw |-> m.energyKw, weather |-> m.weather,
      out |-> Compute(DemoPanel, m.energyKw, m.weather)] : m \in Moments}

\* a handler that predicts from another snapshot than the one it sends
HandleOtherSnapshot(reading, weather) ==
    Compute(DemoPanel, reading.energyKw, [weather EXCEPT !.sunlightRatio = Zero])

\* what the handler computes for a reading and a snapshot
Handle(reading, weather) ==
    (CHOOSE r \in Computed : r.energyKw = reading.energyKw /\ r.weather = weather).out

\* a message stamped against the clock
messageTimestampBackwards(reading) == 2 * StartMs - reading.timestamp

\* the timestamp of the message: that of the reading
messageTimestamp(reading) == reading.timestamp

\* a provider whose promise rejects when there is no sun
getCurrentWeatherFailsAtNight(weather) ==
    IF weather.sunlightRatio = Zero THEN "rejected" ELSE "resolved"

\* how the promise of WeatherProvider.getCurrentWeather() settles: the function
\* is arithmetic on Date.now() and has no throwing operation
getCurrentWeatherSettles(weather) == "resolved"

\* the handler of telemetry.onReading, after `await weatherProvider.getCurrentWeather()`;
\* a rejected await ends the handler with an unhandled rejection
Resume ==
    /\ ~crashed
    /\ pending # <<>>
    /\ getCurrentWeatherSettles(Head(pending).weather) = "rejected" =>
          /\ pending' = Tail(pending)
          /\ crashed' = TRUE
          /\ UNCHANGED <<cleanings, inbox, lastBroadcast, sinkVars>>
    /\ getCurrentWeatherSettles(Head(pending).weather) = "resolved" =>
       LET reading == Head(pending).reading
           weather == Head(pending).weather
           c == Handle(reading, weather)
           payload == [type |-> "telemetry",
                       data |-> [timestamp |-> messageTimestamp(reading),
                                 actualKw |-> reading.energyKw,
                                 predictedKw |-> c.predicted.energyKw,
                                 weather |-> weather, ratio |-> c.ratio,
                                 alert |-> c.alert]]
           sent == sendLoop(subscribers, Broken)
       IN /\ pending' = Tail(pending)
          /\ cleanings' = IF ShouldClean(c.alert)
                          THEN triggerCleaning(cleanings, reading.timestamp)
                          ELSE cleanings
          /\ inbox' = [w \in Clients |->
                         IF w \in watched
                         THEN [inbox[w] EXCEPT !.got = @ \o
                                 [i \in 1..Count(sent.order, w) |-> payload.data.timestamp]]
                         ELSE inbox[w]]
          /\ lastBroadcast' = [valid |-> TRUE, timestamp |-> payload.data.timestamp,
                               str |-> JsonStringify(payload),
                               threw |-> Broken \cap Range(subscribers),
                               delivered |-> sent.delivered, raised |-> sent.raised,
                               predictedKw |-> c.predicted.energyKw,
                               actualKw |-> reading.energyKw, ratio |-> c.ratio,
                               alert |-> c.alert,
                               cleaningStarted |-> ShouldClean(c.alert),
                               posted |-> (hasSink /\ ~sent.raised),
                               panel |-> reading.panel]
          /\ crashed' = sent.raised
          /\ IF hasSink /\ ~sent.raised
             THEN postUpdate(c.fields)
             ELSE UNCHANGED sinkVars
    /\ UNCHANGED <<now, nTicks, genVars, subscribers, clientState, hasSink, alertVars,
                   cleanVars, watched, fetchVars, calcVars>>

Tick == TimerFires(MaxTicks, Moments)

\* the clock and the process when the program starts
TimeInit ==
    /\ now = StartMs
    /\ nTicks = 0
    /\ crashed = FALSE

\* createTelemetrySimulator(), then the onReading calls of start-up
GenInit(ls) ==
    /\ listeners = ls
    /\ registrations = [cb \in Callbacks |-> Count(ls, cb)]
    /\ invoked = [cb \in Callbacks |-> 0]
    /\ lastEmit = NoEmit

\* index.ts at start-up: no subscriber, no handler running, no cleaning
OrchInit ==
    /\ pending = <<>>
    /\ subscribers = <<>>
    /\ clientState = [c \in Clients |-> "idle"]
    /\ lastBroadcast = NoBroadcast
    /\ cleanings = {}

\* new ThingSpeakClient({ apiKey, minIntervalMs })
SinkInit(interval) ==
    /\ minIntervalMs = interval
    /\ lastPostMs = 0
    /\ inflight = {}
    /\ nCalls = 0
    /\ nAttempts = 0
    /\ lastCall = NoCall
    /\ lastDone = NoDone
    /\ lastSuccess = NoSuccess

\* no cleaning has returned, no POST /api/clean was made
CleanIdle ==
    /\ lastCleaned = NoCleaned
    /\ nCleanRequests = 0

\* the clients in w are watched; nothing was received
InboxInit(w) ==
    /\ watched = w
    /\ inbox = [c \in Clients |-> NoInbox]

\* no weather fetch was asked
FetchIdle ==
    /\ fetchIn = NoFetch
    /\ fetchOut = NoAnswer

\* no function called by the harness
NoCalc == [fn |-> "none", done |-> FALSE]

CalcIdle ==
    /\ calcIn = NoCalc
    /\ calcOut = NoCalc

\* nothing cleaned, no client watched, no weather fetched, no function called
AuxInit ==
    /\ CleanIdle
    /\ InboxInit({})
    /\ FetchIdle
    /\ CalcIdle

\* no call of evaluate before this one
NoPrev == [valid |-> FALSE, ratio |-> Zero, out |-> NULL]

\* the classifier harness at rest
AlertIdle ==
    /\ alertIn = [thresholdRatio |-> THRESHOLD, actualKw |-> Zero, predictedKw |-> Zero,
                  ratio |-> Zero]
    /\ alertOut = [NULL EXCEPT !.level = "none"]
    /\ alertPrev = NoPrev

\* index.ts once the module has run: the handler is the only listener, and the
\* sink exists when TS_WRITE_KEY is set
Init ==
    /\ TimeInit
    /\ GenInit(<<"orch">>)
    /\ OrchInit
    /\ hasSink \in BOOLEAN
    /\ SinkInit(DefaultMinIntervalMs)
    /\ AlertIdle
    /\ AuxInit

Next ==
    \/ Tick
    \/ Resume
    \/ \E c \in Clients : Connect(c)
    \/ \E c \in Clients : Break(c)
    \/ \E c \in Clients : Close(c)
    \/ PostSucceeds
    \/ PostFails
    \/ CleaningDone

Spec == Init /\ [][Next]_vars

\* the moments without an alert and with a critical one
LiveMoments == {m \in Moments : m.energyKw = Zero \/ m.weather.sunlightRatio = Zero}

LiveTick == TimerFires(MaxLiveTicks, LiveMoments)

LiveNext ==
    \/ LiveTick
    \/ Resume
    \/ \E c \in Clients : Connect(c)
    \/ \E c \in Clients : Break(c)
    \/ \E c \in Clients : Close(c)
    \/ PostSucceeds
    \/ PostFails
    \/ CleaningDone

\* the steps the event loop takes by itself: a due timer fires, a continuation
\* runs, a request settles (axios gives up after its timeout)
Progress ==
    \/ LiveTick
    \/ Resume
    \/ PostSucceeds
    \/ PostFails
    \/ CleaningDone

\* the event loop does not stop while it has such a step to take
Fairness == WF_vars(Progress)

\* the runs with the sink configured, where sockets, requests and cleanings can
\* all be in the way of a tick
LiveInit == Init /\ hasSink

LiveSpec == LiveInit /\ [][LiveNext]_vars /\ Fairness

(***************************************************************************)
(* The cleaning actuator in the orchestrator: cleanings are started by     *)
(* critical ticks and by POST /api/clean requests, at any time.            *)
(***************************************************************************)
CleanInit == Init /\ ~hasSink

CleanTick == TimerFires(MaxCleanTicks, LiveMoments)

CleanNext ==
    \/ CleanTick
    \/ Resume
    \/ CleanRequest
    \/ CleaningDone

\* the timers are live: the generator's and those of the cleanings
CleanFairness == WF_vars(CleanTick \/ Resume \/ CleaningDone)

CleanSpec == CleanInit /\ [][CleanNext]_vars /\ CleanFairness

(***************************************************************************)
(* The registry and the messages one client receives: no sink, one client  *)
(* watched.                                                                *)
(***************************************************************************)
InboxSpecInit ==
    /\ TimeInit
    /\ GenInit(<<"orch">>)
    /\ OrchInit
    /\ hasSink = FALSE
    /\ SinkInit(DefaultMinIntervalMs)
    /\ AlertIdle
    /\ CleanIdle
    /\ \E c \in Clients : InboxInit({c})
    /\ FetchIdle
    /\ CalcIdle

InboxTick == TimerFires(MaxInboxTicks, LiveMoments)

InboxNext ==
    \/ InboxTick
    \/ Resume
    \/ \E c \in Clients : Connect(c)
    \/ \E c \in Clients : Break(c)
    \/ \E c \in Clients : Close(c)
    \/ CleaningDone

InboxSpec == InboxSpecInit /\ [][InboxNext]_vars

(***************************************************************************)
(* The weather route alone: a client asks GET /api/weather/current, the    *)
(* provider behaves in one of the ways of Providers, the route answers.    *)
(***************************************************************************)
FetchInit ==
    /\ TimeInit
    /\ GenInit(<<"orch">>)
    /\ OrchInit
    /\ hasSink = FALSE
    /\ SinkInit(DefaultMinIntervalMs)
    /\ AlertIdle
    /\ AuxInit

\* a request arrives
WeatherRequest ==
    /\ ~fetchIn.asked
    /\ \E lat \in Coordinates, lon \in Coordinates, env \in Providers :
          fetchIn' = [asked |-> TRUE, lat |-> lat, lon |-> lon, env |-> env]
    /\ UNCHANGED <<timeVars, genVars, orchVars, sinkVars, alertVars, cleanVars,
                   inboxVars, fetchOut, calcVars>>

\* the route answers it
WeatherRespond ==
    /\ fetchIn.asked
    /\ ~fetchOut.answered
    /\ fetchOut' = weatherCurrent(fetchIn.lat, fetchIn.lon, fetchIn.env)
    /\ UNCHANGED <<timeVars, genVars, orchVars, sinkVars, alertVars, cleanVars,
                   inboxVars, fetchIn, calcVars>>

FetchNext == WeatherRequest \/ WeatherRespond

FetchSpec == FetchInit /\ [][FetchNext]_vars

(***************************************************************************)
(* The pure functions alone: the harness calls one function on arguments   *)
(* drawn from sampled sets and keeps what it returned.                     *)
(***************************************************************************)
\* panels of several ratings and snapshots over the ranges of the fields
PredictInputs ==
    [fn : {"predict"}, done : {FALSE},
     ratedKw : {Zero, Num(1, 3), Num(5, 1)},
     weather : [temperatureC : {Num(-10, 1), Num(25, 1), Num(45, 1)},
                humidity : {Zero, Num(50, 1), Num(100, 1)},
                cloudCover : {Zero, Num(1, 2), Num(1, 1)},
                sunlightRatio : {Zero, Num(1, 2), Num(1, 1)}]]

\* Math.sin(((localHour - 6) / 12) * Math.PI) at the hours where it is rational
SinHalfDay(localHour) ==
    CASE localHour \in {6, 18} -> Zero
      [] localHour \in {8, 16} -> Num(1, 2)
      [] localHour = 12 -> Num(1, 1)
      [] localHour \in {4, 20} -> Num(-1, 2)
      [] localHour = 0 -> Num(-1, 1)

\* the simulated hour, sin(seconds / 120) and Math.random() of a timer callback
ReadingInputs ==
    [fn : {"reading"}, done : {FALSE},
     localHour : {0, 4, 6, 8, 12, 16, 18, 20},
     dirtSin : {Num(-1, 1), Zero, Num(1, 2), Num(1, 1)},
     rnd : {Zero, Num(1, 2), Num(999, 1000)}]

\* openweather.ts mapToSnapshot
mapToSnapshot(entry) ==
    LET cloudCover == MathMin(Num(1, 1), MathMax(Zero,
                         Div(Nullish(entry.clouds, Num(50, 1)), Num(100, 1))))
    IN [temperatureC |-> entry.temp,
        humidity |-> entry.humidity,
        cloudCover |-> cloudCover,
        sunlightRatio |-> IF entry.uvi.kind # "missing"
                          THEN MathMax(Zero, MathMin(Num(1, 1), Div(entry.uvi, Num(8, 1))))
                          ELSE MathMax(Zero, Sub(Num(1, 1), cloudCover))]

\* openweather.ts predictKwFromSnapshot
predictKwFromSnapshot(snapshot, ratedKw) ==
    LET irradianceFactor == snapshot.sunlightRatio
        tempCoefficientPerC == Num(-45, 10000)
        deltaT == MathMax(Zero, Sub(snapshot.temperatureC, Num(25, 1)))
        tempDerate == Add(Num(1, 1), Mul(tempCoefficientPerC, deltaT))
        cloudFactor == Sub(Num(1, 1), Mul(Num(75, 100), snapshot.cloudCover))
        humidityDrag == Sub(Num(1, 1), Mul(Num(5, 100), Div(snapshot.humidity, Num(100, 1))))
        factor == MathMax(Zero, Mul(Mul(Mul(irradianceFactor, tempDerate), cloudFactor),
                                    humidityDrag))
    IN Mul(ratedKw, factor)

\* an interpolation weight that is not clamped to [0, 1]
interpWeightUnclamped(t, prevTs, nextTs) ==
    Div(Num(t - prevTs, 1), Num(Max(1, nextTs - prevTs), 1))

\* openweather.ts resampleToFiveMinutes: span and w
interpWeight(t, prevTs, nextTs) ==
    LET span == Max(1, nextTs - prevTs)
    IN MathMax(Zero, MathMin(Num(1, 1), Div(Num(t - prevTs, 1), Num(span, 1))))

\* openweather.ts resampleToFiveMinutes: the series, each point with the locals
\* of its iteration (prev and next as indices into hourly, from 1).  A local of
\* the code is bound once, as x \in {value}, and used by its name afterwards.
resampleToFiveMinutes(nowMs, hourly, ratedKw) ==
    LET tsMs(i) == hourly[i].dt * 1000
        start == nowMs - 2 * 60 * 60 * 1000
        end == nowMs + 2 * 60 * 60 * 1000
        step == 5 * 60 * 1000
        \* the scan of byTs: it stops at the first entry at or after t
        Stop(t) == LET at == {i \in 1..Len(hourly) : tsMs(i) >= t}
                   IN IF at = {} THEN Len(hourly)
                      ELSE CHOOSE i \in at : \A j \in at : i <= j
        Prev(t, stop) == LET before == {i \in 1..stop : tsMs(i) <= t}
                         IN IF before = {} THEN 1
                            ELSE CHOOSE i \in before : \A j \in before : j <= i
        Blend(a, b, w, u) ==
            [temperatureC |-> Add(Mul(a.temperatureC, u), Mul(b.temperatureC, w)),
             humidity |-> Add(Mul(a.humidity, u), Mul(b.humidity, w)),
             cloudCover |-> Add(Mul(a.cloudCover, u), Mul(b.cloudCover, w)),
             sunlightRatio |-> Add(Mul(a.sunlightRatio, u), Mul(b.sunlightRatio, w))]
        Point(t) ==
            CHOOSE p \in
              UNION UNION UNION UNION
              {{{{{[t |-> t, predicted |-> toFixed(predicted, 3),
                    prev |-> prev, next |-> next, w |-> w, interp |-> interp] :
                      predicted \in {predictKwFromSnapshot(interp, ratedKw)}} :
                     interp \in {Blend(mapToSnapshot(hourly[prev]),
                                       mapToSnapshot(hourly[next]), w, Sub(Num(1, 1), w))}} :
                    w \in {interpWeight(t, tsMs(prev), tsMs(next))}} :
                   prev \in {Prev(t, next)}} :
                  next \in {Stop(t)}} : TRUE
    IN [k \in 1..(IF end < start THEN 0 ELSE (end - start) \div step + 1) |->
          Point(start + (k - 1) * step)]

\* hourly lists of one to four entries an hour apart, beginning before, inside or
\* after the window, and a request on the hour or two minutes after it; times
\* count from an epoch four hours before the request
ResampleInputs ==
    LET Sunny == [temp |-> Num(20, 1), humidity |-> Zero, clouds |-> Zero, uvi |-> Num(8, 1)]
        Overcast == [temp |-> Num(20, 1), humidity |-> Zero, clouds |-> Num(100, 1),
                     uvi |-> Missing]
        Humid == [temp |-> Num(20, 1), humidity |-> Num(100, 1), clouds |-> Zero,
                  uvi |-> Num(4, 1)]
        Hazy == [temp |-> Num(35, 1), humidity |-> Zero, clouds |-> Missing,
                 uvi |-> Num(8, 1)]
        Patterns == {<<Sunny, Overcast>>, <<Overcast, Sunny>>, <<Sunny, Humid>>,
                     <<Hazy, Hazy>>}
        Hourly(first, n, pat) ==
            [i \in 1..n |-> [dt |-> (first + i - 1) * 3600, temp |-> pat[1 + (i % 2)].temp,
                             humidity |-> pat[1 + (i % 2)].humidity,
                             clouds |-> pat[1 + (i % 2)].clouds,
                             uvi |-> pat[1 + (i % 2)].uvi]]
    IN {[fn |-> "resample", done |-> FALSE, nowMs |-> 4 * 3600000 + off,
         hourly |-> Hourly(first, n, pat)] :
           off \in {0, 120000}, first \in {0, 3, 5, 7}, n \in 1..MaxHourly, pat \in Patterns}

CalcInit ==
    /\ TimeInit
    /\ GenInit(<<>>)
    /\ OrchInit
    /\ hasSink = FALSE
    /\ SinkInit(DefaultMinIntervalMs)
    /\ AlertIdle
    /\ CleanIdle
    /\ InboxInit({})
    /\ FetchIdle
    /\ \/ calcIn \in PredictInputs
       \/ calcIn \in ReadingInputs
       \/ calcIn \in ResampleInputs
    /\ calcOut = NoCalc

\* twin.predict(panel, weather)
CallPredict ==
    /\ calcIn.fn = "predict"
    /\ ~calcOut.done
    /\ calcOut' = [fn |-> "predict", done |-> TRUE,
                   energyKw |-> predict([DemoPanel EXCEPT !.ratedKw = calcIn.ratedKw],
                                        calcIn.weather).energyKw]
    /\ UNCHANGED <<timeVars, genVars, orchVars, sinkVars, alertVars, cleanVars,
                   inboxVars, fetchVars, calcIn>>

\* the timer callback of the generator, up to emit
CallMakeReading ==
    /\ calcIn.fn = "reading"
    /\ ~calcOut.done
    /\ calcOut' = [fn |-> "reading", done |-> TRUE,
                   energyKw |-> MakeReading(now, DemoPanel,
                                            MathMax(Zero, SinHalfDay(calcIn.localHour)),
                                            calcIn.dirtSin, calcIn.rnd).energyKw]
    /\ UNCHANGED <<timeVars, genVars, orchVars, sinkVars, alertVars, cleanVars,
                   inboxVars, fetchVars, calcIn>>

\* index.ts GET /api/prediction/openweather: resampleToFiveMinutes(nowMs, owm.hourly, 5)
CallResample ==
    /\ calcIn.fn = "resample"
    /\ ~calcOut.done
    /\ calcOut' = [fn |-> "resample", done |-> TRUE,
                   series |-> resampleToFiveMinutes(calcIn.nowMs, calcIn.hourly, Num(5, 1))]
    /\ UNCHANGED <<timeVars, genVars, orchVars, sinkVars, alertVars, cleanVars,
                   inboxVars, fetchVars, calcIn>>

CalcNext ==
    \/ CallPredict
    \/ CallMakeReading
    \/ CallResample

CalcSpec == CalcInit /\ [][CalcNext]_vars

(***************************************************************************)
(* The sink client alone: postUpdate called at any time, with any of the   *)
(* sampled fields, against a network that answers, fails or times out.     *)
(***************************************************************************)
\* the clock of this model advances by half the request timeout
StepMs == PostTimeoutMs \div 2

\* the configured minimum intervals: one step, and the default
IntervalSamples == {StepMs, DefaultMinIntervalMs}

\* the fields the handler builds at the sampled readings, by day
FieldSamples == {r.out.fields : r \in {x \in Computed : x.out.alert # NULL}}

SinkOnlyInit ==
    /\ TimeInit
    /\ GenInit(<<>>)
    /\ OrchInit
    /\ hasSink = TRUE
    /\ \E interval \in IntervalSamples : SinkInit(interval)
    /\ AlertIdle
    /\ AuxInit

\* Date.now() advances by one step
Elapse ==
    /\ ~crashed
    /\ nTicks < MaxSteps
    /\ MayElapse(StepMs)
    /\ now' = now + StepMs
    /\ nTicks' = nTicks + 1
    /\ UNCHANGED <<crashed, genVars, orchVars, sinkVars, alertVars, auxVars>>

\* a caller calls postUpdate(fields)
CallPostUpdate ==
    /\ ~crashed
    /\ nCalls < MaxCalls
    /\ \E fields \in FieldSamples : postUpdate(fields)
    /\ UNCHANGED <<timeVars, genVars, orchVars, alertVars, auxVars>>

SinkNext ==
    \/ Elapse
    \/ CallPostUpdate
    \/ PostSucceeds
    \/ PostFails

SinkSpec == SinkOnlyInit /\ [][SinkNext]_vars

(***************************************************************************)
(* The generator alone: callbacks are registered at any time, the timer    *)
(* fires.                                                                  *)
(***************************************************************************)
GenOnlyInit ==
    /\ TimeInit
    /\ GenInit(<<>>)
    /\ OrchInit
    /\ hasSink = FALSE
    /\ SinkInit(DefaultMinIntervalMs)
    /\ AlertIdle
    /\ AuxInit

RECURSIVE Sum(_, _)
Sum(f, S) == IF S = {} THEN 0
             ELSE LET x == CHOOSE y \in S : TRUE IN f[x] + Sum(f, S \ {x})

Register ==
    /\ Sum(registrations, Callbacks) < MaxRegistrations
    /\ \E cb \in TestCallbacks : OnReading(cb)

GenTick == TimerFires(MaxGenTicks, Moments)

GenNext ==
    \/ Register
    \/ GenTick

GenSpec == GenOnlyInit /\ [][GenNext]_vars

(***************************************************************************)
(* The 10-minute generator (the createTelemetrySimulator of cleaning.ts):  *)
(* emitReading() runs once inside the constructor, then on every interval. *)
(***************************************************************************)
\* the state when createTelemetrySimulator() returns: the first emitReading() has
\* run over the listener set as it was then, empty
Gen10Init ==
    /\ TimeInit
    /\ listeners = <<>>
    /\ registrations = [cb \in Callbacks |-> 0]
    /\ \E m \in Moments :
         LET e == emit(<<>>)
         IN /\ invoked = [cb \in Callbacks |-> Count(e.called, cb)]
            /\ lastEmit = [valid |-> TRUE, timestamp |-> now, energyKw |-> m.energyKw,
                           called |-> e.called, threw |-> e.threw,
                           registrations |-> registrations, panel |-> emittedPanel(0)]
    /\ OrchInit
    /\ hasSink = FALSE
    /\ SinkInit(DefaultMinIntervalMs)
    /\ AlertIdle
    /\ AuxInit

\* setInterval(emitReading, intervalMs) fires
Gen10Tick ==
    /\ ~crashed
    /\ nTicks < MaxGenTicks
    /\ now' = now + tenMinutesMs
    /\ nTicks' = nTicks + 1
    /\ \E m \in Moments :
         LET e == emit(listeners)
         IN /\ invoked' = [cb \in Callbacks |-> Count(e.called, cb)]
            /\ lastEmit' = [valid |-> TRUE, timestamp |-> now', energyKw |-> m.energyKw,
                            called |-> e.called, threw |-> e.threw,
                            registrations |-> registrations,
                            panel |-> emittedPanel(nTicks')]
            /\ crashed' = e.threw
    /\ UNCHANGED <<listeners, registrations, orchVars, sinkVars, alertVars, auxVars>>

Gen10Next ==
    \/ Register
    \/ Gen10Tick

Gen10Spec == Gen10Init /\ [][Gen10Next]_vars

(***************************************************************************)
(* The classifier alone: evaluate applied to each sampled input.           *)
(***************************************************************************)
MaxRatioSteps == 13     \* the largest sampled ratio, in twentieths

Thresholds == {Num(1, 10), Num(1, 5), Num(2, 5)}

RatioSamples ==
    {Norm(k, 20) : k \in -1..MaxRatioSteps} \cup {Num(1000, 1), NaN, PosInf}

PredictedSamples ==
    {Zero, Num(-1, 1000), Num(-3, 1), NaN, PosInf, NegInf, Num(1, 1000), Num(5, 2)}

ActualSamples == {Zero, Num(2, 1)}

AlertInputs ==
    [thresholdRatio : Thresholds, actualKw : ActualSamples,
     predictedKw : PredictedSamples, ratio : RatioSamples]

AlertInit ==
    /\ TimeInit
    /\ GenInit(<<>>)
    /\ OrchInit
    /\ hasSink = FALSE
    /\ SinkInit(DefaultMinIntervalMs)
    /\ alertIn \in AlertInputs
    /\ alertOut = [NULL EXCEPT !.level = "none"]
    /\ alertPrev = NoPrev
    /\ AuxInit

\* new AlertService(thresholdRatio).evaluate(input)
Evaluate ==
    /\ alertOut.level = "none"
    /\ alertOut' = evaluate(alertIn.thresholdRatio, alertIn)
    /\ UNCHANGED <<timeVars, genVars, orchVars, sinkVars, alertIn, alertPrev, auxVars>>

AlertNext == Evaluate

AlertSpec == AlertInit /\ [][AlertNext]_vars

(***************************************************************************)
(* The classifier called twice: the same service, the same prediction,     *)
(* another ratio.                                                          *)
(***************************************************************************)
\* evaluate({ ...input, ratio }) on the service that has answered alertIn
EvaluateAgain ==
    /\ alertOut.level # "none"
    /\ ~alertPrev.valid
    /\ \E ratio \in RatioSamples :
         /\ alertPrev' = [valid |-> TRUE, ratio |-> alertIn.ratio, out |-> alertOut]
         /\ alertIn' = [alertIn EXCEPT !.ratio = ratio]
         /\ alertOut' = evaluate(alertIn.thresholdRatio, alertIn')
    /\ UNCHANGED <<timeVars, genVars, orchVars, sinkVars, auxVars>>

SweepNext ==
    \/ Evaluate
    \/ EvaluateAgain

SweepSpec == AlertInit /\ [][SweepNext]_vars

(***************************************************************************)
(* Properties.                                                             *)
(***************************************************************************)
TickTimes == {StartMs + k * intervalMs : k \in 1..MaxLiveTicks}

\* C1: in the step where the handler broadcasts, every subscriber whose send()
\* does not throw receives the message, whatever the other sockets do, and
\* nothing is raised to the handler: the process lives on.
C1_BroadcastIsolation ==
    [][(pending # <<>> /\ pending' = <<>>) =>
         /\ lastBroadcast'.valid
         /\ lastBroadcast'.delivered = Range(subscribers) \ Broken
         /\ ~lastBroadcast'.raised
         /\ ~crashed']_vars

\* three subscribers, the first of which throws: the other two have the message
C1_Witness ==
    /\ lastBroadcast.valid
    /\ lastBroadcast.threw = {1}
    /\ lastBroadcast.delivered = {2, 3}
    /\ ~crashed

\* C2, as the specification states it, for the first two calls of a client whose
\* first request has not failed: less than the interval apart they make exactly
\* one network attempt, at least the interval apart they make two.
C2_Original ==
    (nCalls = 2 /\ lastCall.prevOutcome # "failed") =>
        IF lastCall.at - lastCall.prevAt < minIntervalMs
        THEN nAttempts = 1
        ELSE nAttempts = 2

C5_SkipIsNoOp ==
    /\ (nCalls > 0 /\ lastCall.at - lastCall.seen < minIntervalMs) =>
          (~lastCall.attempted /\ lastCall.unchanged /\ lastCall.body = NoFields)
    /\ (nCalls > 0 /\ lastCall.attempted) => lastCall.body = lastCall.fields
    /\ nAttempts <= nCalls

\* a skipped call, after which the one attempt made so far is still the only one
C5_Witness ==
    /\ nCalls = MaxCalls
    /\ lastCall.outcome = "skipped"
    /\ lastCall.prevOutcome = "skipped"
    /\ lastCall.unchanged
    /\ nAttempts = 1

\* C6, as the specification states it: when a listener throws, every registered
\* listener has still been invoked with the reading and the generator lives on.
C6_Original ==
    (lastEmit.valid /\ lastEmit.threw) =>
        /\ \A cb \in Callbacks : lastEmit.registrations[cb] > 0 => invoked[cb] > 0
        /\ ~crashed

C8_EveryTickBroadcast ==
    /\ (lastEmit.valid /\ lastEmit.timestamp \in TickTimes)
          ~> (lastBroadcast.valid /\ lastBroadcast.timestamp = lastEmit.timestamp)
    /\ <>(lastBroadcast.valid
            /\ lastBroadcast.timestamp = StartMs + MaxLiveTicks * intervalMs)

\* the last tick is broadcast while a socket throws, a request has failed and a
\* cleaning is under way
C8_Witness ==
    /\ lastBroadcast.valid
    /\ lastBroadcast.timestamp = StartMs + MaxLiveTicks * intervalMs
    /\ lastBroadcast.threw # {}
    /\ lastDone.valid
    /\ ~lastDone.ok
    /\ cleanings # {}

\* C9: for a finite predictedKw > 0, evaluate is a step function of the ratio:
\* ok below T, warning from T up to 1.5 T, critical from 1.5 T on, and
\* shouldClean is true exactly at critical.
C9_ThreeBands ==
    (alertOut.level # "none" /\ isFinite(alertIn.predictedKw)
       /\ Lt(Zero, alertIn.predictedKw)) =>
        LET T == alertIn.thresholdRatio
            upper == Mul(T, UpperBandFactor)
            r == alertIn.ratio
        IN /\ alertOut.level \in {"ok", "warning", "critical"}
           /\ Lt(r, T) => (alertOut.level = "ok" /\ ~alertOut.shouldClean)
           /\ (Le(T, r) /\ Lt(r, upper)) =>
                 (alertOut.level = "warning" /\ ~alertOut.shouldClean)
           /\ Le(upper, r) => (alertOut.level = "critical" /\ alertOut.shouldClean)
           /\ alertOut.shouldClean <=> alertOut.level = "critical"

\* the ratio is exactly the threshold: warning
C9_Witness ==
    /\ alertOut.level = "warning"
    /\ alertIn.ratio = alertIn.thresholdRatio
    /\ Lt(Zero, alertIn.predictedKw)

\* the sampled inputs whose predictedKw is 0, negative or not finite
GuardedInputs ==
    {i \in AlertInputs : ~isFinite(i.predictedKw) \/ Le(i.predictedKw, Zero)}

\* what evaluate returns on them
GuardedOutputs == {evaluate(i.thresholdRatio, i) : i \in GuardedInputs}

\* C10: evaluate returns null on every input whose predictedKw is 0, negative or
\* not finite; a tick whose prediction is not positive is broadcast with alert
\* null and starts no cleaning.
C10_NullOnBadPrediction ==
    /\ GuardedOutputs = {NULL}
    /\ (lastBroadcast.valid /\ ~Lt(Zero, lastBroadcast.predictedKw)) =>
          /\ lastBroadcast.alert = NULL
          /\ lastBroadcast.str.data.alert = NULL
          /\ ~lastBroadcast.cleaningStarted
          /\ \A c \in cleanings : c.tick # lastBroadcast.timestamp

\* a prediction of 0 with a positive output, a ratio above 1000: no alert
C10_Witness ==
    /\ lastBroadcast.valid
    /\ lastBroadcast.predictedKw = Zero
    /\ Lt(Zero, lastBroadcast.actualKw)
    /\ Lt(Num(1000, 1), lastBroadcast.ratio)
    /\ lastBroadcast.alert = NULL
    /\ cleanings # {}

\* the order of the levels
LevelRank(level) ==
    CASE level = "ok" -> 1 [] level = "warning" -> 2 [] level = "critical" -> 3
      [] OTHER -> 0

\* C11: for one threshold and one positive predictedKw, the level evaluate
\* returns does not decrease when the ratio grows: of two calls, the one with
\* the larger ratio has the level that is at least as high.
C11_LevelMonotone ==
    (alertPrev.valid /\ isFinite(alertIn.predictedKw) /\ Lt(Zero, alertIn.predictedKw)) =>
        /\ Le(alertPrev.ratio, alertIn.ratio) =>
              LevelRank(alertPrev.out.level) <= LevelRank(alertOut.level)
        /\ Le(alertIn.ratio, alertPrev.ratio) =>
              LevelRank(alertOut.level) <= LevelRank(alertPrev.out.level)

\* two calls whose ratios lie on either side of the upper bound
C11_Witness ==
    /\ alertPrev.valid
    /\ Lt(alertPrev.ratio, alertIn.ratio)
    /\ alertPrev.out.level = "warning"
    /\ alertOut.level = "critical"

\* C12: in the step where the handler of a tick whose alert recommends cleaning
\* broadcasts, the cleaning it has started is still under way; and whenever a
\* cleaning ends, the message of its tick has been broadcast already, with the
\* alert that started the cleaning.
C12_BroadcastBeforeCleaningEnds ==
    [][/\ (pending # <<>> /\ pending' = <<>> /\ lastBroadcast'.cleaningStarted) =>
            /\ lastBroadcast'.valid
            /\ lastBroadcast'.timestamp = Head(pending).reading.timestamp
            /\ lastBroadcast'.str.data.alert.level = "critical"
            /\ \E c \in cleanings' : c.tick = lastBroadcast'.timestamp
       /\ \A c \in cleanings \ cleanings' :
            c.tick > MaxCleanRequests =>
               (lastBroadcast.valid /\ lastBroadcast.timestamp >= c.tick)]_vars

\* the message of a critical tick is out and its cleaning is under way
C12_Witness ==
    /\ lastBroadcast.valid
    /\ lastBroadcast.cleaningStarted
    /\ lastBroadcast.delivered # {}
    /\ \E c \in cleanings : c.tick = lastBroadcast.timestamp

\* the invocations of triggerCleaning that are due within the run
DueCleanings ==
    {c \in [startedAt : {StartMs + k * intervalMs : k \in 0..MaxCleanTicks},
            tick : {StartMs + k * intervalMs : k \in 1..MaxCleanTicks}
                     \cup 1..MaxCleanRequests] :
        /\ c.tick > MaxCleanRequests => c.startedAt = c.tick
        /\ c.startedAt + durationSec * 1000 <= StartMs + MaxCleanTicks * intervalMs}

\* C13: with live timers, every invocation of triggerCleaning, from a critical
\* tick or from POST /api/clean, returns a result with status completed,
\* durationSec 3 and its own startedAt, whatever other invocations are under way.
C13_EveryCleaningCompletes ==
    \A c \in DueCleanings :
        (c \in cleanings)
          ~> (/\ lastCleaned.valid
              /\ lastCleaned.call = c
              /\ lastCleaned.result = [startedAt |-> c.startedAt, status |-> "completed",
                                       durationSec |-> 3])

\* a request's cleaning has returned while a later invocation, started during
\* it, is under way
C13_Witness ==
    /\ lastCleaned.valid
    /\ lastCleaned.call.tick <= MaxCleanRequests
    /\ lastCleaned.result.startedAt = lastCleaned.call.startedAt
    /\ \E c \in cleanings :
          /\ c.startedAt > lastCleaned.call.startedAt
          /\ c.startedAt < lastCleaned.call.startedAt + durationSec * 1000

\* C14: each timer callback yields one message, stamped with the tick's
\* timestamp; a step of the handler hands it exactly once to every watched
\* client that is registered and whose send() succeeds, and to no client that
\* has closed; no other step delivers anything; no client holds a message
\* stamped at or before the instant it connected (nothing is replayed).
C14_OneMessagePerTick ==
    [][/\ (pending # <<>> /\ pending' = <<>>) =>
            /\ lastBroadcast'.valid
            /\ lastBroadcast'.timestamp = lastEmit.timestamp
            /\ lastBroadcast'.timestamp = Head(pending).reading.timestamp
            /\ \A c \in watched :
                 IF clientState[c] = "open"
                 THEN inbox'[c].got = Append(inbox[c].got, lastEmit.timestamp)
                 ELSE inbox'[c].got = inbox[c].got
       /\ ~(pending # <<>> /\ pending' = <<>>) =>
            \A c \in Clients : inbox'[c].got = inbox[c].got
       /\ \A c \in watched : \A i \in 1..Len(inbox'[c].got) :
            inbox'[c].got[i] > inbox'[c].since]_vars

\* a watched client that connected after the first tick has closed, having
\* received a message while another client was failing
C14_Witness ==
    \E c \in watched :
        /\ clientState[c] = "closed"
        /\ inbox[c].since > StartMs
        /\ Len(inbox[c].got) >= 1
        /\ lastBroadcast.timestamp > inbox[c].got[Len(inbox[c].got)]
        /\ lastBroadcast.threw # {}

\* C15: the messages a client receives come in tick order: their timestamps
\* increase along the client's inbox, so they never decrease.
C15_TickOrder ==
    \A c \in watched : \A i, j \in 1..Len(inbox[c].got) :
        i < j => inbox[c].got[i] < inbox[c].got[j]

\* a watched client has received three messages
C15_Witness ==
    \E c \in watched : Len(inbox[c].got) >= 3

\* C16: the registry holds exactly the clients that have connected and not
\* closed, each once; a client whose send() throws stays registered.
C16_RegistryIsOpenSockets ==
    /\ Range(subscribers) = {c \in Clients : clientState[c] \in {"open", "broken"}}
    /\ Len(subscribers) = Cardinality(Range(subscribers))
    /\ lastBroadcast.valid =>
          \A c \in lastBroadcast.threw : clientState[c] = "broken" => c \in Range(subscribers)

\* a broadcast met a failing socket, which is still registered, and another
\* client has closed and is gone from the registry
C16_Witness ==
    /\ lastBroadcast.valid
    /\ pending = <<>>
    /\ \E c \in lastBroadcast.threw : c \in Range(subscribers)
    /\ \E d \in Clients : clientState[d] = "closed" /\ d \notin Range(subscribers)

\* a snapshot a caller can use: four finite numbers, the two ratios in [0, 1]
UsableSnapshot(w) ==
    /\ isFinite(w.temperatureC) /\ isFinite(w.humidity)
    /\ isFinite(w.cloudCover) /\ isFinite(w.sunlightRatio)
    /\ Le(Zero, w.cloudCover) /\ Le(w.cloudCover, Num(1, 1))
    /\ Le(Zero, w.sunlightRatio) /\ Le(w.sunlightRatio, Num(1, 1))

\* C17 as the specification states it: whenever the route has called the
\* fetch, the fetch has resolved with a usable snapshot, also when the
\* transport failed or the provider answered with a non-OK status.
C17_Original ==
    (/\ fetchOut.answered
     /\ fetchOut.fetched
     /\ (fetchIn.env.transport = "fails" \/ fetchIn.env.status \notin 200..299)) =>
        /\ fetchOut.promise = "resolved"
        /\ UsableSnapshot(fetchOut.snapshot)

\* C18: the snapshot the built-in provider hands to the handler is always a
\* usable one and its promise never rejects: once the handler of a tick has
\* run, the tick's message has been broadcast and the process is alive.
C18_WeatherAlwaysResolves ==
    /\ \A i \in 1..Len(pending) :
          /\ UsableSnapshot(pending[i].weather)
          /\ getCurrentWeatherSettles(pending[i].weather) = "resolved"
    /\ (pending = <<>> /\ lastEmit.valid) =>
          /\ ~crashed
          /\ lastBroadcast.valid
          /\ lastBroadcast.timestamp = lastEmit.timestamp

\* the handler of a later tick has gone past the weather step at night (no
\* sun, nothing predicted) and has broadcast
C18_Witness ==
    /\ nTicks >= 2
    /\ pending = <<>>
    /\ lastBroadcast.valid
    /\ lastBroadcast.timestamp = lastEmit.timestamp
    /\ lastBroadcast.predictedKw = Zero

\* work of earlier ticks that has not finished and is not yet due
WorkUnderWay ==
    /\ inflight # {} \/ cleanings # {}
    /\ \A p \in inflight : (now + intervalMs) - p.start <= PostTimeoutMs
    /\ \A c \in cleanings : (now + intervalMs) - c.startedAt <= durationSec * 1000

\* C19: a cleaning or a sink request of an earlier tick that is still under
\* way blocks nothing: the next timer callback can run at its instant, the next
\* client can connect and is registered, every tick so far came at its own
\* interval, and a tick's handler broadcasts at the instant of the tick.
C19_WorkInFlightBlocksNothing ==
    /\ (~crashed /\ pending = <<>> /\ WorkUnderWay) =>
          /\ nTicks < MaxTicks => ENABLED Tick
          /\ \A c \in Connecting :
                (clientState[c] = "idle" /\ \A b \in Clients : b < c => clientState[b] # "idle")
                   => ENABLED Connect(c)
    /\ lastEmit.valid => lastEmit.timestamp = StartMs + nTicks * intervalMs
    /\ (pending = <<>> /\ lastEmit.valid) =>
          (lastBroadcast.valid /\ lastBroadcast.timestamp = now)

\* a tick has been broadcast while a sink request and a cleaning of earlier
\* ticks are under way, and a client has connected since that broadcast
C19_Witness ==
    /\ pending = <<>>
    /\ lastBroadcast.valid
    /\ lastBroadcast.timestamp = lastEmit.timestamp
    /\ \E p \in inflight : p.start < lastBroadcast.timestamp
    /\ \E c \in cleanings : c.startedAt < lastBroadcast.timestamp
    /\ \E c \in Range(subscribers) : c \notin lastBroadcast.delivered \cup lastBroadcast.threw

\* C20 as the specification states it: without a write key nothing is ever
\* posted; with a key, once the handler of a tick has run, postUpdate has been
\* called once per tick, at the tick's instant and after its broadcast, with
\* the actual kW, the predicted kW and the deviation percent, rounded; and any
\* two requests that reached the network are at least the minimum interval
\* apart, unless the earlier one failed.
C20_Original ==
    /\ ~hasSink => (nCalls = 0 /\ nAttempts = 0 /\ inflight = {})
    /\ (hasSink /\ pending = <<>> /\ lastBroadcast.valid) =>
          /\ nCalls = nTicks
          /\ lastBroadcast.posted
          /\ lastCall.at = lastBroadcast.timestamp
          /\ lastCall.fields =
                [field1 |-> toFixed(lastBroadcast.actualKw, 3),
                 field2 |-> toFixed(lastBroadcast.predictedKw, 3),
                 field3 |-> toFixed(Mul(lastBroadcast.ratio, Num(100, 1)), 2)]
    /\ \A p, q \in inflight : p.start < q.start => q.start - p.start >= minIntervalMs
    /\ \A q \in inflight :
          lastSuccess.valid => (q.start = lastSuccess.start
                                \/ Abs(q.start - lastSuccess.start) >= minIntervalMs)

\* C21: for a snapshot with humidity in [0, 100], cloudCover and sunlightRatio
\* in [0, 1] and a temperature from -10 C to 45 C, and a rating >= 0,
\* predict returns 0 <= energyKw <= ratedKw, and 0 when sunlightRatio is 0.
C21_PredictWithinRating ==
    (calcOut.done /\ calcOut.fn = "predict") =>
        /\ Le(Zero, calcOut.energyKw)
        /\ Le(calcOut.energyKw, calcIn.ratedKw)
        /\ calcIn.weather.sunlightRatio = Zero => calcOut.energyKw = Zero

\* a hot, humid, half-clouded snapshot in full sun: the prediction is positive
\* and below the rating
C21_Witness ==
    /\ calcOut.done /\ calcOut.fn = "predict"
    /\ calcIn.weather.temperatureC = Num(45, 1)
    /\ calcIn.weather.sunlightRatio = Num(1, 1)
    /\ calcIn.weather.cloudCover = Num(1, 2)
    /\ calcIn.ratedKw = Num(5, 1)
    /\ Lt(Zero, calcOut.energyKw)
    /\ Lt(calcOut.energyKw, calcIn.ratedKw)

\* C22: a reading of the generator has 0 <= energyKw <= 1.1 * ratedKw, and
\* energyKw = 0 when the simulated hour is before 6 or after 18, whatever the
\* soiling phase and the noise draw.
C22_ReadingWithinRating ==
    (calcOut.done /\ calcOut.fn = "reading") =>
        /\ Le(Zero, calcOut.energyKw)
        /\ Le(calcOut.energyKw, Mul(Num(11, 10), DemoPanel.ratedKw))
        /\ (calcIn.localHour < 6 \/ calcIn.localHour > 18) => calcOut.energyKw = Zero

\* noon, a clean panel and the largest noise draw: the reading is positive
C22_Witness ==
    /\ calcOut.done /\ calcOut.fn = "reading"
    /\ calcIn.localHour = 12
    /\ calcIn.dirtSin = Num(-1, 1)
    /\ calcIn.rnd = Num(999, 1000)
    /\ Lt(Num(4, 1), calcOut.energyKw)

\* C23: the message the handler of a tick broadcasts has actualKw >= 0, predictedKw >= 0 and a finite
\* ratio >= 0 equal to |predictedKw - actualKw| / max(predictedKw, 0.001); the
\* divisor is positive, also when predictedKw is 0.
C23_NonNegativeMessage ==
    [][(pending # <<>> /\ pending' = <<>>) =>
          LET divisor == MathMax(lastBroadcast'.predictedKw, Num(1, 1000))
          IN /\ lastBroadcast'.valid
             /\ Le(Zero, lastBroadcast'.actualKw)
             /\ Le(Zero, lastBroadcast'.predictedKw)
             /\ Lt(Zero, divisor)
             /\ isFinite(lastBroadcast'.ratio)
             /\ Le(Zero, lastBroadcast'.ratio)
             /\ lastBroadcast'.ratio =
                   Div(MathAbs(Sub(lastBroadcast'.predictedKw, lastBroadcast'.actualKw)),
                       divisor)]_vars

\* a message of a tick with nothing predicted and something produced
C23_Witness ==
    /\ lastBroadcast.valid
    /\ lastBroadcast.predictedKw = Zero
    /\ Lt(Zero, lastBroadcast.actualKw)
    /\ Lt(Num(1, 1), lastBroadcast.ratio)

\* C24: every reading carries the panel made at creation (DEMO-001, 5 kW), and
\* the panel is the same after the handler has predicted, classified,
\* broadcast, posted and started a cleaning.
C24_PanelNeverChanges ==
    /\ DemoPanel.ratedKw = Num(5, 1)
    /\ lastEmit.panel = DemoPanel
    /\ \A i \in 1..Len(pending) : pending[i].reading.panel = DemoPanel
    /\ lastBroadcast.panel = DemoPanel

\* the handler of a later tick has run, with a cleaning started and a post made
C24_Witness ==
    /\ nTicks >= 2
    /\ lastBroadcast.valid
    /\ lastBroadcast.timestamp = lastEmit.timestamp
    /\ lastBroadcast.cleaningStarted
    /\ lastBroadcast.posted
    /\ lastBroadcast.panel = lastEmit.panel

\* the worked example: 5 kW panel, 30 C, humidity 50, cloud cover 0.2, sunlight
\* ratio 0.8, 2.0 kW produced, threshold 0.2
ExampleOut ==
    Compute(DemoPanel, Num(2, 1),
            [temperatureC |-> Num(30, 1), humidity |-> Num(50, 1),
             cloudCover |-> Num(1, 5), sunlightRatio |-> Num(4, 5)])

\* C25: the message the handler of a tick broadcasts is consistent with the
\* snapshot it carries: predictedKw is predict(panel, weather) of that
\* snapshot, ratio comes from that predictedKw and the reading's energyKw, the
\* alert is evaluate of these three (and, when not null, carries the message
\* ratio), and the timestamp and actualKw are the reading's.  In the worked
\* example the ratio rounds to 0.383 and the alert is critical with shouldClean.
C25_MessageConsistent ==
    [][(pending # <<>> /\ pending' = <<>>) =>
            LET reading == Head(pending).reading
                weather == lastBroadcast'.str.data.weather
                predictedKw == predict(reading.panel, weather).energyKw
                ratio == Ratio(predictedKw, reading.energyKw)
                alert == evaluate(THRESHOLD, [actualKw |-> reading.energyKw,
                                              predictedKw |-> predictedKw, ratio |-> ratio])
            IN /\ weather = Head(pending).weather
               /\ lastBroadcast'.timestamp = reading.timestamp
               /\ lastBroadcast'.actualKw = reading.energyKw
               /\ lastBroadcast'.predictedKw = predictedKw
               /\ lastBroadcast'.ratio = ratio
               /\ lastBroadcast'.alert = alert
               /\ alert # NULL => alert.ratio = lastBroadcast'.ratio
               /\ lastBroadcast'.str.data.timestamp = reading.timestamp
               /\ lastBroadcast'.str.data.predictedKw = predictedKw
               /\ lastBroadcast'.str.data.ratio = ratio
               /\ toFixed(ExampleOut.ratio, 3) = Num(383, 1000)
               /\ ExampleOut.alert.level = "critical"
               /\ ExampleOut.alert.shouldClean
               /\ ExampleOut.alert.ratio = ExampleOut.ratio]_vars

\* a message of a sunny tick with a critical alert
C25_Witness ==
    /\ lastBroadcast.valid
    /\ pending = <<>>
    /\ Lt(Zero, lastBroadcast.str.data.weather.sunlightRatio)
    /\ Lt(Zero, lastBroadcast.predictedKw)
    /\ lastBroadcast.alert.level = "critical"
    /\ lastBroadcast.alert.shouldClean

\* C26: the handler of a tick classified critical starts exactly one cleaning,
\* also while cleanings of earlier ticks are under way; the handler of a tick
\* classified ok or warning, or not evaluable (null), starts none; no other
\* step starts a cleaning.
C26_OneCleaningPerCriticalTick ==
    [][IF pending # <<>> /\ pending' = <<>>
       THEN LET started == [startedAt |-> now, tick |-> Head(pending).reading.timestamp]
            IN IF lastBroadcast'.alert.level = "critical"
               THEN /\ started \notin cleanings
                    /\ cleanings' = cleanings \cup {started}
                    /\ Cardinality(cleanings') = Cardinality(cleanings) + 1
               ELSE /\ lastBroadcast'.alert.level \in {"ok", "warning", "null"}
                    /\ cleanings' = cleanings
       ELSE cleanings' \subseteq cleanings]_vars

\* three cleanings are under way, the last started by the tick just handled
C26_Witness ==
    /\ pending = <<>>
    /\ lastBroadcast.valid
    /\ lastBroadcast.alert.level = "critical"
    /\ Cardinality(cleanings) >= 3
    /\ \E c \in cleanings : c.tick = lastBroadcast.timestamp

\* C27 as the specification states it: in the 10-minute generator a listener
\* registered at startup, before the first interval has elapsed, has received
\* the initial reading; after an interval each listener registered before it
\* has received the reading of that interval (when no listener threw).
C27_Original ==
    \A cb \in Range(listeners) :
        /\ nTicks = 0 => cb \in Range(lastEmit.called)
        /\ (nTicks > 0 /\ lastEmit.registrations[cb] > 0 /\ ~lastEmit.threw) =>
              cb \in Range(lastEmit.called)

\* C28 as the specification states it: no step of the sink client, a
\* postUpdate call or the completion of a request, lowers lastPostMs.
C28_Original == [][lastPostMs' >= lastPostMs]_vars

\* C29 as the specification states it: at most one request is in flight at any
\* time, so a postUpdate call that makes a network attempt finds none in flight.
C29_Original ==
    /\ Cardinality(inflight) <= 1
    /\ lastCall.prevOutcome = "inflight" => ~lastCall.attempted

\* C30: for a non-empty hourly list sorted by time, resampleToFiveMinutes
\* returns 49 points from nowMs - 2 h to nowMs + 2 h, 5 minutes apart; every
\* point has a weight in [0, 1] between two entries that are the same or
\* adjacent and enclose its time when the list covers it; a point before the
\* first entry or after the last takes the snapshot and the prediction of that
\* entry.
C30_FiveMinuteSeries ==
    (calcOut.done /\ calcOut.fn = "resample") =>
        LET series == calcOut.series
            hourly == calcIn.hourly
            last == Len(hourly)
            Edge(p, i) ==
                /\ p.interp = mapToSnapshot(hourly[i])
                /\ p.predicted = toFixed(predictKwFromSnapshot(mapToSnapshot(hourly[i]),
                                                             Num(5, 1)), 3)
        IN /\ Len(series) = 49
           /\ series[1].t = calcIn.nowMs - 7200000
           /\ series[49].t = calcIn.nowMs + 7200000
           /\ \A k \in 1..48 : series[k + 1].t - series[k].t = 300000
           /\ \A k \in 1..49 :
                LET p == series[k]
                IN /\ Le(Zero, p.w) /\ Le(p.w, Num(1, 1))
                   /\ p.prev \in 1..last /\ p.next \in 1..last
                   /\ p.next - p.prev \in {0, 1}
                   /\ p.t < hourly[1].dt * 1000 => Edge(p, 1)
                   /\ p.t > hourly[last].dt * 1000 => Edge(p, last)
                   /\ (hourly[1].dt * 1000 <= p.t /\ p.t <= hourly[last].dt * 1000) =>
                         /\ hourly[p.prev].dt * 1000 <= p.t
                         /\ p.t <= hourly[p.next].dt * 1000

\* a list that begins and ends inside the window: the series has points before
\* the first entry, strictly between two entries and after the last
C30_Witness ==
    /\ calcOut.done /\ calcOut.fn = "resample"
    /\ Len(calcIn.hourly) = 2
    /\ calcOut.series[1].t < calcIn.hourly[1].dt * 1000
    /\ calcOut.series[49].t > calcIn.hourly[2].dt * 1000
    /\ \E k \in 1..49 :
          /\ Lt(Zero, calcOut.series[k].w) /\ Lt(calcOut.series[k].w, Num(1, 1))
          /\ calcOut.series[k].prev = 1 /\ calcOut.series[k].next = 2
          /\ Lt(Zero, calcOut.series[k].predicted)

====
